---- MODULE Spec2Model ----
(***************************************************************************)
(* A model of aburd/broadcaster: the server-side socket group             *)
(* (createSocketGroup, src/src/server.ts) and the client connection       *)
(* (connect, src/src/client.ts).                                          *)
(*                                                                         *)
(* JavaScript runs each call and each event listener to completion, so    *)
(* every public operation and every socket event is one atomic action.    *)
(* The code of an operation is an operator on a "machine" record g (the   *)
(* heap the closures of createSocketGroup share, plus the trace of the    *)
(* call: what was written to which socket, which callbacks and handlers   *)
(* ran, whether an exception is propagating).  Operators compose the way  *)
(* the calls nest: a handler that calls group.removeSocket is the         *)
(* operator removeSocket applied inside the operator onmessage.           *)
(***************************************************************************)
EXTENDS Integers, Sequences, FiniteSets, TLC

\* How many WebSockets Deno.upgradeWebSocket hands out in one run.
MaxSockets == 2

Socks == 1..MaxSockets

(***************************************************************************)
(* JavaScript values                                                       *)
(***************************************************************************)

\* A SocketGroupKey or a message key: string | number | symbol (or the value
\* undefined, when a property is missing).
StrKey(s) == [t |-> "string", s |-> s, n |-> 0]
NumKey(n) == [t |-> "number", s |-> "", n |-> n]
SymKey(s) == [t |-> "symbol", s |-> s, n |-> 0]
UndefinedKey == [t |-> "undefined", s |-> "", n |-> 0]

Digits == <<"0", "1", "2", "3", "4", "5", "6", "7", "8", "9">>

\* Number::toString for the one-digit non-negative integers the model uses.
NumberToString(n) == Digits[n + 1]

\* obj[k]: a number (and undefined) is converted to a string, a string and a
\* symbol are property keys as they are.
ToPropertyKey(k) ==
  CASE k.t = "number" -> StrKey(NumberToString(k.n))
    [] k.t = "undefined" -> StrKey("undefined")
    [] OTHER -> k

\* References: a WebSocket, a handler function, undefined, and what every
\* ordinary object inherits from Object.prototype.
Sock(i) == [ref |-> "WebSocket", id |-> i, fn |-> ""]
Fn(name) == [ref |-> "function", id |-> 0, fn |-> name]
Undefined == [ref |-> "undefined", id |-> 0, fn |-> ""]
Null == [ref |-> "null", id |-> 0, fn |-> ""]
ObjectCtor == [ref |-> "function", id |-> 0, fn |-> "Object"]
ObjectProto == [ref |-> "object", id |-> 0, fn |-> "Object.prototype"]

Truthy(v) == v.ref \notin {"undefined", "null"}
IsSocket(v) == v.ref = "WebSocket"
Callable(v) == v.ref = "function"

(***************************************************************************)
(* Ordinary objects: the own properties in creation order, as a sequence  *)
(* of [k |-> property key, v |-> value].                                  *)
(***************************************************************************)

OwnIndexes(props, pk) == {i \in 1..Len(props) : props[i].k = pk}

HasOwn(props, pk) == OwnIndexes(props, pk) # {}

\* A property every object created by {} inherits.
Inherited(pk) ==
  CASE pk = StrKey("constructor") -> ObjectCtor
    [] pk = StrKey("__proto__") -> ObjectProto
    [] OTHER -> Undefined

\* obj[k]
Get(props, k) ==
  LET pk == ToPropertyKey(k)
  IN IF HasOwn(props, pk)
       THEN props[CHOOSE i \in OwnIndexes(props, pk) : TRUE].v
       ELSE Inherited(pk)

\* obj[k] = v: an own property keeps its place, a new one goes last.
Set(props, k, v) ==
  LET pk == ToPropertyKey(k)
  IN IF HasOwn(props, pk)
       THEN [i \in 1..Len(props) |->
               IF props[i].k = pk THEN [k |-> pk, v |-> v] ELSE props[i]]
       ELSE Append(props, [k |-> pk, v |-> v])

\* delete obj[k]
Delete(props, k) ==
  LET pk == ToPropertyKey(k)
      keep(e) == e.k # pk
  IN SelectSeq(props, keep)

\* An integer index: a string key that is the decimal form of an integer.
IsIndex(pk) == pk.t = "string" /\ \E d \in 1..Len(Digits) : Digits[d] = pk.s

\* Object.values(obj): the values of the own string-keyed properties, the
\* integer indexes first in ascending order, then the others in creation
\* order.  Symbol-keyed properties are not enumerated.
ObjectValues(props) ==
  LET isDigit(d) == HasOwn(props, StrKey(d))
      digits == SelectSeq(Digits, isDigit)
      isName(e) == e.k.t = "string" /\ ~IsIndex(e.k)
      names == SelectSeq(props, isName)
  IN [i \in 1..Len(digits) |-> Get(props, StrKey(digits[i]))]
       \o [i \in 1..Len(names) |-> names[i].v]

(***************************************************************************)
(* Messages and JSON                                                       *)
(***************************************************************************)

\* A Message {key, data}.  data is "null" or "obj" (JSON serializable) or
\* "bigint" (a value JSON.stringify throws a TypeError on).
Msg(key, data) == [key |-> key, data |-> data]

\* The text of a WebSocket frame: "garbage" is not JSON, "null" is the JSON
\* literal null, "object" is a JSON object with a "data" member and, when
\* hasKey, a "key" member.
Text(kind, hasKey, key, data) ==
  [kind |-> kind, hasKey |-> hasKey, key |-> key, data |-> data]

\* JSON.stringify as it would be if it wrote every key as a string.
JSONstringifyKeysAsStrings(m) ==
  IF m.data = "bigint"
    THEN [threw |-> TRUE, text |-> Text("garbage", FALSE, UndefinedKey, "")]
    ELSE [threw |-> FALSE,
          text |-> IF m.key.t \in {"symbol", "undefined"}
                     THEN Text("object", FALSE, UndefinedKey, m.data)
                     ELSE Text("object", TRUE, ToPropertyKey(m.key), m.data)]

\* JSON.stringify(message): throws on a BigInt; a member whose value is a
\* symbol or undefined is left out; a number key stays a JSON number.
JSONstringify(m) ==
  IF m.data = "bigint"
    THEN [threw |-> TRUE, text |-> Text("garbage", FALSE, UndefinedKey, "")]
    ELSE [threw |-> FALSE,
          text |-> IF m.key.t \in {"symbol", "undefined"}
                     THEN Text("object", FALSE, UndefinedKey, m.data)
                     ELSE Text("object", TRUE, m.key, m.data)]

\* JSON.parse(event.data): throws a SyntaxError on text that is not JSON;
\* the value is falsy for null; a missing member reads as undefined.
JSONparse(text) ==
  CASE text.kind = "garbage" ->
         [threw |-> TRUE, truthy |-> FALSE, key |-> UndefinedKey, data |-> ""]
    [] text.kind = "null" ->
         [threw |-> FALSE, truthy |-> FALSE, key |-> UndefinedKey, data |-> ""]
    [] OTHER ->
         [threw |-> FALSE, truthy |-> TRUE,
          key |-> IF text.hasKey THEN text.key ELSE UndefinedKey,
          data |-> text.data]

(***************************************************************************)
(* State                                                                   *)
(***************************************************************************)

VARIABLES
  opts,           \* the CreateSocketOpts given to createSocketGroup: which of
                  \* onOpen, onClose, onError the host supplied
  _sockets,       \* the own properties of the object _sockets
  readyState,     \* of each WebSocket: "NONE" until upgradeWebSocket makes it
  closureKey,     \* the key the listeners addSocket installs have captured
  responded,      \* the sockets whose upgrade Response addSocket returned
  onmessage,      \* each WebSocket's onmessage listener
  ctorOnmessage,  \* the onmessage property of the global function Object
  exited          \* the server process has ended on an uncaught exception

serverVars ==
  <<opts, _sockets, readyState, closureKey, responded, onmessage,
    ctorOnmessage, exited>>

\* The state of one call of connect(wsUrl, opts) in a browser.
VARIABLES
  connectOpts,    \* the ConnectOpts given to connect: which of onOpen,
                  \* onClose, onError the host supplied
  socketState,    \* the readyState of _socket
  _handlers,      \* the variable _handlers: "undefined" or a handler table
  promise,        \* the promise connect returned
  running,        \* how many calls of an async handler have not completed
  onCloseCalls    \* how often opts.onClose has been called

clientVars ==
  <<connectOpts, socketState, _handlers, promise, running, onCloseCalls>>

vars == <<serverVars, clientVars>>

\* A listener setHandlersForSocket installs: a closure over handlers and key.
NoListener == [set |-> FALSE, handlers |-> "", key |-> UndefinedKey]
Listener(handlers, key) == [set |-> TRUE, handlers |-> handlers, key |-> key]

\* The machine: the heap, and the trace of the step so far.
Cur ==
  [socks |-> _sockets, rs |-> readyState, ckey |-> closureKey,
   responded |-> responded, onmessage |-> onmessage, ctor |-> ctorOnmessage,
   exited |-> exited,
   out |-> <<>>, cb |-> <<>>, invoked |-> <<>>, raised |-> FALSE]

\* throw: the rest of the call stack is skipped.
Raise(g) == [g EXCEPT !.raised = TRUE]

\* g; Op(g): the next statement runs unless an exception is propagating.
Then(g, Op(_)) == IF g.raised THEN g ELSE Op(g)

(***************************************************************************)
(* The WebSocket methods the group calls                                   *)
(***************************************************************************)

\* WebSocket.close(): starts the closing handshake of a connecting or open
\* socket; a no-op on a closing or closed one.
wsClose(g, s) ==
  [g EXCEPT !.rs[s] = IF @ \in {"CONNECTING", "OPEN"} THEN "CLOSING" ELSE @]

\* WebSocket.send(text): throws InvalidStateError while connecting, writes
\* while open, and discards the data once closing or closed.
wsSend(g, s, text) ==
  CASE g.rs[s] = "CONNECTING" -> Raise(g)
    [] g.rs[s] = "OPEN" ->
         [g EXCEPT !.out = Append(@, [sock |-> s, text |-> text])]
    [] OTHER -> g

\* socket.send(JSON.stringify(message)) for whatever value socket holds.
socketSend(g, socket, message) ==
  LET r == JSONstringify(message)
  IN IF r.threw \/ ~IsSocket(socket)
       THEN Raise(g)
       ELSE wsSend(g, socket.id, r.text)

(***************************************************************************)
(* createSocketGroup: the group's methods                                  *)
(***************************************************************************)

getSocket(g, k) ==
  LET socket == Get(g.socks, k)
  IN IF ~Truthy(socket) THEN Null ELSE socket

removeSocket(g, k) ==
  LET socket == Get(g.socks, k)
  IN IF ~Truthy(socket) THEN g
     ELSE IF ~IsSocket(socket) THEN Raise(g)
     ELSE [wsClose(g, socket.id) EXCEPT !.socks = Delete(@, k)]

send(g, key, message) ==
  LET socket == Get(g.socks, key)
  IN IF ~Truthy(socket) THEN g ELSE socketSend(g, socket, message)

RECURSIVE sendEach(_, _, _)
sendEach(g, values, message) ==
  IF values = <<>> \/ g.raised
    THEN g
    ELSE sendEach(socketSend(g, Head(values), message), Tail(values), message)

broadcast(g, message) == sendEach(g, ObjectValues(g.socks), message)

setHandlersForSocket(g, key, handlers) ==
  LET socket == Get(g.socks, key)
  IN IF ~Truthy(socket) THEN g
     ELSE IF IsSocket(socket)
       THEN [g EXCEPT !.onmessage[socket.id] = Listener(handlers, key)]
       ELSE [g EXCEPT !.ctor = Listener(handlers, key)]

\* addSocket(key, req), s being the socket Deno.upgradeWebSocket returns.
addSocket(g, key, s) ==
  LET g1 == [g EXCEPT !.rs[s] = "CONNECTING", !.ckey[s] = key]
      g2 == IF opts.onError THEN removeSocket(g1, key) ELSE g1
      store(h) == [h EXCEPT !.socks = Set(@, key, Sock(s)),
                            !.responded = @ \cup {s}]
  IN Then(g2, store)

(***************************************************************************)
(* Handler tables and the message listener                                 *)
(***************************************************************************)

\* The handler tables the host binds: object literals, as in the README.
\* What a handler does is its name: "reply" sends to its own key and then
\* broadcasts, "remove" removes its own key, "throw" throws, "noop" returns.
HandlersOf(name) ==
  CASE name = "readme" ->
         <<[k |-> StrKey("update_foo"), v |-> Fn("reply")],
           [k |-> StrKey("bar_event"), v |-> Fn("remove")]>>
    [] name = "quiet" ->
         <<[k |-> StrKey("update_foo"), v |-> Fn("noop")],
           [k |-> StrKey("boom"), v |-> Fn("throw")]>>

ReplyMessage == Msg(StrKey("foo_event"), "null")
ChangedMessage == Msg(StrKey("foo_changed"), "obj")

\* handler(eventData.data, key, group)
callHandler(g, handler, data, key, table) ==
  LET g1 == [g EXCEPT !.invoked =
               Append(@, [fn |-> handler.fn, key |-> key, table |-> table])]
      thenBroadcast(h) == broadcast(h, ChangedMessage)
  IN IF ~Callable(handler) THEN Raise(g)
     ELSE CASE handler.fn = "remove" -> removeSocket(g1, key)
            [] handler.fn = "reply" ->
                 Then(send(g1, key, ReplyMessage), thenBroadcast)
            [] handler.fn = "throw" -> Raise(g1)
            [] OTHER -> g1

\* The listener setHandlersForSocket installed, run on event.data = text.
messageListener(g, listener, text) ==
  LET eventData == JSONparse(text)
      handler == Get(HandlersOf(listener.handlers), eventData.key)
  IN IF eventData.threw \/ ~eventData.truthy \/ ~Truthy(handler)
       THEN g
       ELSE callHandler(g, handler, eventData.data, listener.key,
                        listener.handlers)

(***************************************************************************)
(* The listeners addSocket installs.  An exception a listener throws     *)
(* stops that listener and is reported by the runtime (see Outcomes).      *)
(***************************************************************************)

Callback(g, name, key) ==
  [g EXCEPT !.cb = Append(@, [name |-> name, key |-> key])]

onopen(g, s) ==
  IF opts.onOpen THEN Callback(g, "onOpen", g.ckey[s]) ELSE g

\* socket.onclose as it would be if it only evicted.
oncloseEvictOnly(g, s) ==
  IF opts.onClose THEN removeSocket(g, g.ckey[s]) ELSE g

onclose(g, s) ==
  LET callback(h) == Callback(h, "onClose", g.ckey[s])
  IN IF opts.onClose THEN Then(removeSocket(g, g.ckey[s]), callback) ELSE g

\* addSocket assigns socket.onerror after its call of removeSocket: a socket
\* whose addSocket threw there has no error listener.
onerror(g, s) ==
  IF opts.onError /\ s \in g.responded
    THEN Callback(g, "onError", g.ckey[s])
    ELSE g

(***************************************************************************)
(* Inputs                                                                  *)
(***************************************************************************)

\* The keys the host uses: a string, a number and the string it converts
\* to, a symbol, and a string that names a property of Object.prototype.
Keys ==
  {StrKey("a"), NumKey(1), StrKey("1"), SymKey("s"), StrKey("constructor")}

TableNames == {"readme", "quiet"}

\* What the host sends: a serializable message, one that is not, and
\* messages whose key is a number and a symbol.
OutMessages ==
  {Msg(StrKey("foo_event"), "null"), Msg(StrKey("foo_changed"), "bigint"),
   Msg(NumKey(1), "obj"), Msg(SymKey("s"), "obj")}

\* What a peer sends: text that is not JSON, null, an object without a key,
\* the tags of the handler tables, a tag no table has, and two tags that name
\* properties of Object.prototype.
Inbound ==
  {Text("garbage", FALSE, UndefinedKey, ""),
   Text("null", FALSE, UndefinedKey, ""),
   Text("object", FALSE, UndefinedKey, "obj"),
   Text("object", TRUE, StrKey("update_foo"), "obj"),
   Text("object", TRUE, StrKey("bar_event"), "obj"),
   Text("object", TRUE, StrKey("boom"), "obj"),
   Text("object", TRUE, StrKey("unknown_tag"), "obj"),
   Text("object", TRUE, StrKey("constructor"), "obj"),
   Text("object", TRUE, StrKey("__proto__"), "obj")}

(***************************************************************************)
(* Steps.  A step commits the heap of the machine its code leaves; the     *)
(* trace of the call (g.out, g.cb, g.invoked, g.raised) is what the call   *)
(* did to the world outside the heap.                                      *)
(***************************************************************************)

Commit(g) ==
  /\ _sockets' = g.socks
  /\ readyState' = g.rs
  /\ closureKey' = g.ckey
  /\ responded' = g.responded
  /\ onmessage' = g.onmessage
  /\ ctorOnmessage' = g.ctor
  /\ exited' = g.exited
  /\ UNCHANGED <<opts, clientVars>>

\* A process that has not called connect.
NoClient ==
  /\ connectOpts = [onOpen |-> FALSE, onClose |-> FALSE, onError |-> FALSE]
  /\ socketState = "NONE"
  /\ _handlers = "undefined"
  /\ promise = "none"
  /\ running = 0
  /\ onCloseCalls = 0

\* The state createSocketGroup(opts) returns in.
NewGroup ==
  /\ _sockets = <<>>
  /\ readyState = [s \in Socks |-> "NONE"]
  /\ closureKey = [s \in Socks |-> UndefinedKey]
  /\ responded = {}
  /\ onmessage = [s \in Socks |-> NoListener]
  /\ ctorOnmessage = NoListener
  /\ exited = FALSE

Init ==
  /\ opts \in [onOpen : BOOLEAN, onClose : BOOLEAN, onError : BOOLEAN]
  /\ NewGroup
  /\ NoClient

\* The next socket Deno.upgradeWebSocket makes.
Fresh ==
  {s \in Socks : /\ readyState[s] = "NONE"
                 /\ \A r \in Socks : r < s => readyState[r] # "NONE"}

AddSocket(key) ==
  /\ ~exited
  /\ key \in Keys
  /\ \E s \in Fresh : Commit(addSocket(Cur, key, s))

\* getSocket returns null, a socket, or what _sockets inherits under k, and
\* leaves the heap alone.
GetSocket(k) ==
  /\ ~exited
  /\ k \in Keys
  /\ getSocket(Cur, k).ref \in {"null", "WebSocket", "function"}
  /\ Commit(Cur)

RemoveSocket(k) ==
  /\ ~exited
  /\ k \in Keys
  /\ Commit(removeSocket(Cur, k))

SetHandlersForSocket(key, handlers) ==
  /\ ~exited
  /\ key \in Keys /\ handlers \in TableNames
  /\ Commit(setHandlersForSocket(Cur, key, handlers))

Send(key, message) ==
  /\ ~exited
  /\ key \in Keys /\ message \in OutMessages
  /\ Commit(send(Cur, key, message))

Broadcast(message) ==
  /\ ~exited
  /\ message \in OutMessages
  /\ Commit(broadcast(Cur, message))

\* The process ends: every connection it held is gone.
Exit(g) ==
  [g EXCEPT !.exited = TRUE,
            !.rs = [s \in Socks |-> IF g.rs[s] = "NONE" THEN "NONE" ELSE "CLOSED"]]

\* How a socket event ends.  An exception its listener did not catch is
\* reported by Deno as an error event on globalThis: the process goes on if
\* a listener of the host prevents the default, and exits if none does.
Outcomes(g) == IF g.raised THEN {g, Exit(g)} ELSE {g}

\* The open event of socket s: the upgrade is complete.
openEvent(g, s) == onopen([g EXCEPT !.rs[s] = "OPEN"], s)

\* The message event of socket s: a text frame has arrived.
messageEvent(g, s, text) ==
  IF g.onmessage[s].set THEN messageListener(g, g.onmessage[s], text) ELSE g

\* The close event of socket s: the peer left, or the closing handshake that
\* close() started is done.
closeEvent(g, s) == onclose([g EXCEPT !.rs[s] = "CLOSED"], s)

\* The transport of socket s fails: the error event, then the close event.
errorEvent(g, s) ==
  LET g1 == onerror([g EXCEPT !.rs[s] = "CLOSED"], s)
      g2 == onclose([g1 EXCEPT !.raised = FALSE], s)
  IN [g2 EXCEPT !.raised = @ \/ g1.raised]

\* A socket opens once addSocket has returned its upgrade Response.
SocketOpen(s) ==
  /\ ~exited
  /\ readyState[s] = "CONNECTING"
  /\ s \in responded
  /\ \E h \in Outcomes(openEvent(Cur, s)) : Commit(h)

\* Frames arrive while the socket is open and, after close(), until the
\* closing handshake is done.
SocketMessage(s, text) ==
  /\ ~exited
  /\ readyState[s] \in {"OPEN", "CLOSING"}
  /\ \E h \in Outcomes(messageEvent(Cur, s, text)) : Commit(h)

SocketClose(s) ==
  /\ ~exited
  /\ readyState[s] \in {"CONNECTING", "OPEN", "CLOSING"}
  /\ \E h \in Outcomes(closeEvent(Cur, s)) : Commit(h)

SocketError(s) ==
  /\ ~exited
  /\ readyState[s] \in {"CONNECTING", "OPEN", "CLOSING"}
  /\ \E h \in Outcomes(errorEvent(Cur, s)) : Commit(h)

Next ==
  \/ \E k \in Keys : AddSocket(k)
  \/ \E k \in Keys : GetSocket(k)
  \/ \E k \in Keys : RemoveSocket(k)
  \/ \E k \in Keys, h \in TableNames : SetHandlersForSocket(k, h)
  \/ \E k \in Keys, m \in OutMessages : Send(k, m)
  \/ \E m \in OutMessages : Broadcast(m)
  \/ \E s \in Socks : SocketOpen(s)
  \/ \E s \in Socks, t \in Inbound : SocketMessage(s, t)
  \/ \E s \in Socks : SocketClose(s)
  \/ \E s \in Socks : SocketError(s)

Spec == Init /\ [][Next]_vars

(***************************************************************************)
(* connect: the client connection.  The host runs in a browser: an        *)
(* exception a listener throws is reported and stops only that listener.  *)
(***************************************************************************)

\* The handler tables the host binds: "doc" is the one of the module's
\* documentation; "slow" has an async handler, whose call returns at its
\* first await and completes later, and a handler that throws.
ClientHandlersOf(name) ==
  CASE name = "doc" ->
         <<[k |-> StrKey("foo_changed"), v |-> Fn("send")],
           [k |-> StrKey("foo_event"), v |-> Fn("noop")]>>
    [] name = "slow" ->
         <<[k |-> StrKey("foo_changed"), v |-> Fn("async")],
           [k |-> StrKey("foo_event"), v |-> Fn("throw")]>>

ClientTableNames == {"doc", "slow"}

\* The most calls of an async handler the model lets be in flight.
MaxRunning == 2

\* The client machine: the variables the closures of connect share, and the
\* trace of the step so far (logged: the calls of console.error).
Cli ==
  [rs |-> socketState, handlers |-> _handlers, promise |-> promise,
   running |-> running, onCloseCalls |-> onCloseCalls,
   out |-> <<>>, cb |-> <<>>, invoked |-> <<>>, logged |-> 0, raised |-> FALSE]

\* _socket.close() as it would be if it started the closing handshake in
\* every state.
clientWsCloseAnyState(c) == [c EXCEPT !.rs = "CLOSING"]

\* _socket.close()
clientWsClose(c) ==
  [c EXCEPT !.rs = IF @ \in {"CONNECTING", "OPEN"} THEN "CLOSING" ELSE @]

\* _socket.send(serialized)
clientWsSend(c, text) ==
  CASE c.rs = "CONNECTING" -> Raise(c)
    [] c.rs = "OPEN" -> [c EXCEPT !.out = Append(@, text)]
    [] OTHER -> c

\* clientSocket.send(message)
clientSend(c, message) ==
  LET r == JSONstringify(message)
  IN IF r.threw
       THEN [c EXCEPT !.logged = @ + 1]
       ELSE clientWsSend(c, r.text)

\* clientSocket.close()
clientClose(c) == clientWsClose(c)

\* clientSocket.setHandlersForSocket(handlers)
clientSetHandlersForSocket(c, handlers) == [c EXCEPT !.handlers = handlers]

\* rej as it would be if a promise could be settled again.
rejAgain(c) == [c EXCEPT !.promise = "rejected"]

\* res(clientSocket) and rej(ev): the resolving functions of a promise do
\* nothing once one of them has been called.
res(c) == [c EXCEPT !.promise = IF @ = "pending" THEN "fulfilled" ELSE @]
rej(c) == [c EXCEPT !.promise = IF @ = "pending" THEN "rejected" ELSE @]

\* The most calls of opts.onClose the model counts.
MaxOnCloseCalls == 3

ClientCallback(c, name) ==
  IF connectOpts[name]
    THEN [c EXCEPT !.cb = Append(@, name),
                   !.onCloseCalls =
                     IF name = "onClose" /\ @ < MaxOnCloseCalls
                       THEN @ + 1 ELSE @]
    ELSE c

\* What the host sends from a handler (client.ts, the module's example).
BarMessage == Msg(StrKey("bar"), "obj")

\* handler(data, clientSocket)
clientCallHandler(c, handler, data) ==
  LET c1 == [c EXCEPT !.invoked = Append(@, handler.fn)]
  IN IF ~Callable(handler) THEN Raise(c)
     ELSE CASE handler.fn = "send" -> clientSend(c1, BarMessage)
            [] handler.fn = "async" -> [c1 EXCEPT !.running = @ + 1]
            [] handler.fn = "throw" -> Raise(c1)
            [] OTHER -> c1

\* _socket.onopen
clientOnopen(c) == ClientCallback(res(c), "onOpen")

\* _socket.onclose
clientOnclose(c) == ClientCallback(clientWsClose(c), "onClose")

\* _socket.onerror
clientOnerror(c) == clientWsClose(rej(ClientCallback(c, "onError")))

\* _socket.onmessage, run on event.data = text.  _handlers[key] throws a
\* TypeError while _handlers is undefined.
clientOnmessage(c, text) ==
  LET eventData == JSONparse(text)
      handler == Get(ClientHandlersOf(c.handlers), eventData.key)
  IN IF eventData.threw THEN [c EXCEPT !.logged = @ + 1]
     ELSE IF ~eventData.truthy THEN c
     ELSE IF c.handlers = "undefined" THEN Raise(c)
     ELSE IF ~Truthy(handler) THEN c
     ELSE clientCallHandler(c, handler, eventData.data)

\* What the server sends the client: text that is not JSON, null, an object
\* without a key, the tags of the handler tables, a tag no table has, and a
\* tag that names a property of Object.prototype.
ClientInbound ==
  {Text("garbage", FALSE, UndefinedKey, ""),
   Text("null", FALSE, UndefinedKey, ""),
   Text("object", FALSE, UndefinedKey, "obj"),
   Text("object", TRUE, StrKey("foo_changed"), "obj"),
   Text("object", TRUE, StrKey("foo_event"), "null"),
   Text("object", TRUE, StrKey("unknown_tag"), "obj"),
   Text("object", TRUE, StrKey("__proto__"), "obj")}

\* What the host sends: a serializable message and one that is not.
ClientOutMessages == {Msg(StrKey("bar"), "obj"), Msg(StrKey("bar"), "bigint")}

ClientCommit(c) ==
  /\ socketState' = c.rs
  /\ _handlers' = c.handlers
  /\ promise' = c.promise
  /\ running' = c.running
  /\ onCloseCalls' = c.onCloseCalls
  /\ UNCHANGED <<connectOpts, serverVars>>

\* The state connect(wsUrl, opts) returns in, in a process with no group.
ClientInit ==
  /\ connectOpts \in [onOpen : BOOLEAN, onClose : BOOLEAN, onError : BOOLEAN]
  /\ socketState = "CONNECTING"
  /\ _handlers = "undefined"
  /\ promise = "pending"
  /\ running = 0
  /\ onCloseCalls = 0
  /\ opts = [onOpen |-> FALSE, onClose |-> FALSE, onError |-> FALSE]
  /\ NewGroup

\* The events of _socket.
clientOpenEvent(c) == clientOnopen([c EXCEPT !.rs = "OPEN"])

clientMessageEvent(c, text) == clientOnmessage(c, text)

clientCloseEvent(c) == clientOnclose([c EXCEPT !.rs = "CLOSED"])

\* The connection fails: the error event, then the close event.
clientErrorEvent(c) ==
  LET c1 == clientOnerror([c EXCEPT !.rs = "CLOSED"])
  IN clientOnclose(c1)

ClientOpen ==
  /\ socketState = "CONNECTING"
  /\ ClientCommit(clientOpenEvent(Cli))

\* A browser delivers a message only while readyState is OPEN.
ClientMessage(text) ==
  /\ socketState = "OPEN"
  /\ text \in ClientInbound
  /\ clientMessageEvent(Cli, text).running <= MaxRunning
  /\ ClientCommit(clientMessageEvent(Cli, text))

ClientCloseEvent ==
  /\ socketState \in {"OPEN", "CLOSING"}
  /\ ClientCommit(clientCloseEvent(Cli))

ClientError ==
  /\ socketState \in {"CONNECTING", "OPEN", "CLOSING"}
  /\ ClientCommit(clientErrorEvent(Cli))

\* The host has the clientSocket once the promise is fulfilled.
ClientSend(message) ==
  /\ promise = "fulfilled"
  /\ message \in ClientOutMessages
  /\ ClientCommit(clientSend(Cli, message))

ClientClose ==
  /\ promise = "fulfilled"
  /\ ClientCommit(clientClose(Cli))

ClientSetHandlersForSocket(handlers) ==
  /\ promise = "fulfilled"
  /\ handlers \in ClientTableNames
  /\ ClientCommit(clientSetHandlersForSocket(Cli, handlers))

\* The work an async handler awaited is done: its call completes.
HandlerCompletes ==
  /\ running > 0
  /\ ClientCommit([Cli EXCEPT !.running = @ - 1])

ClientNext ==
  \/ ClientOpen
  \/ \E t \in ClientInbound : ClientMessage(t)
  \/ ClientCloseEvent
  \/ ClientError
  \/ \E m \in ClientOutMessages : ClientSend(m)
  \/ ClientClose
  \/ \E h \in ClientTableNames : ClientSetHandlersForSocket(h)
  \/ HandlerCompletes

ClientSpec == ClientInit /\ [][ClientNext]_vars

(***************************************************************************)
(* Vocabulary of the claims                                                *)
(***************************************************************************)

Created == {s \in Socks : readyState[s] # "NONE"}

\* The sockets the registry holds, under any key.
Registered == {s \in Socks : \E i \in 1..Len(_sockets) : _sockets[i].v = Sock(s)}

\* The sockets the registry holds under a string or number key.
RegisteredByName ==
  {s \in Socks : \E i \in 1..Len(_sockets) :
                   _sockets[i].v = Sock(s) /\ _sockets[i].k.t = "string"}

\* A connection is registered under k.
Present(k) == HasOwn(_sockets, ToPropertyKey(k))

Serializable(m) == ~JSONstringify(m).threw

\* How often the call whose trace is g wrote message m to socket s.
Writes(g, s, m) ==
  Cardinality({i \in 1..Len(g.out) :
                 g.out[i] = [sock |-> s, text |-> JSONstringify(m).text]})

\* How often the call whose trace is g wrote anything to socket s.
AllWrites(g, s) == Cardinality({i \in 1..Len(g.out) : g.out[i].sock = s})

\* The call whose machine is g changed nothing, wrote nothing, ran nothing
\* and threw nothing.
Silent(g) == g = Cur

(***************************************************************************)
(* The claims                                                              *)
(***************************************************************************)

\* C1: addSocket on a key that is occupied by an open connection is rejected
\* with a DuplicateKey failure: the call throws, the registry still maps the
\* key to the earlier connection, and the earlier connection is still open.
C1_DuplicateAddRejected ==
  \A k \in Keys, s \in Fresh :
    LET earlier == Get(_sockets, k)
        g == addSocket(Cur, k, s)
    IN (Present(k) /\ readyState[earlier.id] = "OPEN")
         => /\ g.raised
            /\ Get(g.socks, k) = earlier
            /\ g.rs[earlier.id] = "OPEN"

\* C2: broadcast(m) writes m exactly once to every connection registered at
\* the start of the call and to no other connection, whatever kind of key
\* (string, number, symbol) a connection is registered under, and leaves the
\* registry as it was.  Stated for the case in which nothing else can go
\* wrong: m is serializable and every registered connection is open.
C2_BroadcastReachesEveryKey ==
  \A m \in OutMessages :
    LET g == broadcast(Cur, m)
    IN (Serializable(m) /\ \A s \in Registered : readyState[s] = "OPEN")
         => /\ \A s \in Registered : Writes(g, s, m) = 1 /\ AllWrites(g, s) = 1
            /\ \A s \in Socks \ Registered : AllWrites(g, s) = 0
            /\ g.socks = _sockets

\* C3: during broadcast(m), when the send to one registered recipient
\* throws, every other recipient still receives m.  Stated for the open
\* connections registered under a string or number key, the ones the loop
\* of broadcast visits.
C3_BroadcastIsolatesFailures ==
  \A m \in OutMessages :
    LET g == broadcast(Cur, m)
    IN Serializable(m)
         => \A s \in RegisteredByName :
              readyState[s] = "OPEN" => Writes(g, s, m) = 1

\* C4: after removeSocket(k) on a present key getSocket(k) is null and close
\* has been initiated on the connection that was under k; removeSocket(k) on
\* an absent key changes nothing and throws nothing.
C4_RemoveEvictsAndCloses ==
  \A k \in Keys :
    LET was == Get(_sockets, k)
        g == removeSocket(Cur, k)
    IN IF Present(k)
         THEN /\ ~g.raised
              /\ getSocket(g, k) = Null
              /\ g.rs[was.id] \in {"CLOSING", "CLOSED"}
         ELSE Silent(g)

\* C5: once the close notification of a connection has been processed the
\* registry holds no closed connection, whatever lifecycle options
\* createSocketGroup was given.
C5_ClosedIsEvicted == \A s \in Registered : readyState[s] # "CLOSED"

\* C6: every connection that was handed to addSocket and is open is the
\* value the registry stores under the key it was added under.
C6_OpenIsRegistered ==
  \A s \in Socks :
    readyState[s] = "OPEN" => Get(_sockets, closureKey[s]) = Sock(s)

\* C7: getSocket(k) returns the connection most recently added under k if it
\* has not been removed since, and null otherwise: its result is null or the
\* last socket addSocket was given key k for.
C7_GetReturnsAddedOrNull ==
  \A k \in Keys :
    LET added == {s \in Created : closureKey[s] = k}
        r == getSocket(Cur, k)
    IN \/ r = Null
       \/ /\ added # {}
          /\ r = Sock(CHOOSE s \in added : \A o \in added : o <= s)

\* C8: send(k, m) writes m exactly once to the connection under k and to no
\* other when k is present; when k is absent it writes nothing, throws
\* nothing and leaves the registry unchanged.  The present case is stated
\* for a serializable m and an open connection under k.
C8_SendTargetsKey ==
  \A k \in Keys, m \in OutMessages :
    LET socket == Get(_sockets, k)
        g == send(Cur, k, m)
    IN IF Present(k)
         THEN (Serializable(m) /\ readyState[socket.id] = "OPEN")
                => /\ Writes(g, socket.id, m) = 1
                   /\ Len(g.out) = 1
                   /\ ~g.raised
                   /\ g.socks = _sockets
         ELSE Silent(g)

\* C9: a message is resolved against the handler table most recently bound
\* to its connection, whole: the handler that runs is the one that table
\* holds for the tag; and setHandlersForSocket on an absent key changes
\* nothing.
C9_DispatchUsesBoundTable ==
  /\ \A s \in Socks, t \in Inbound :
       LET g == messageEvent(Cur, s, t)
           table == HandlersOf(onmessage[s].handlers)
           tag == ToPropertyKey(JSONparse(t).key)
       IN (readyState[s] = "OPEN" /\ onmessage[s].set)
            => \A i \in 1..Len(g.invoked) :
                 /\ g.invoked[i].table = onmessage[s].handlers
                 /\ HasOwn(table, tag)
                 /\ Get(table, tag) = Fn(g.invoked[i].fn)
  /\ \A k \in Keys, h \in TableNames :
       ~Present(k) => Silent(setHandlersForSocket(Cur, k, h))

\* C10: a well-formed inbound envelope whose tag has no entry in the handler
\* table bound to its connection invokes no handler, throws nothing, leaves
\* the connection open and the registry unchanged.
C10_UnknownTagIgnored ==
  \A s \in Socks, t \in Inbound :
    LET g == messageEvent(Cur, s, t)
        table == HandlersOf(onmessage[s].handlers)
    IN ( /\ readyState[s] = "OPEN"
         /\ onmessage[s].set
         /\ t.kind = "object" /\ t.hasKey
         /\ ~HasOwn(table, ToPropertyKey(t.key)) )
         => Silent(g)

(***************************************************************************)
(* What remains true of C4, C7, C8, C9 and C10: each holds for the keys    *)
(* and tags that name no property of Object.prototype.                     *)
(***************************************************************************)

Plain(k) == ~Truthy(Inherited(ToPropertyKey(k)))

\* removeSocket on a plain key: evicts and closes a present one, and does
\* nothing on an absent one.
RemovePlainKey ==
  \A k \in Keys :
    LET was == Get(_sockets, k)
        g == removeSocket(Cur, k)
    IN Plain(k)
         => IF Present(k)
              THEN /\ ~g.raised
                   /\ getSocket(g, k) = Null
                   /\ g.rs[was.id] \in {"CLOSING", "CLOSED"}
              ELSE Silent(g)

\* removeSocket(key) called by a connection's own handler: it throws
\* nothing and the key is absent afterwards.
RemoveFromOwnHandler ==
  \A s \in Socks, t \in Inbound :
    LET g == messageEvent(Cur, s, t)
    IN ( /\ readyState[s] \in {"OPEN", "CLOSING"}
         /\ Len(g.invoked) = 1
         /\ g.invoked[1].fn = "remove"
         /\ Plain(g.invoked[1].key) )
         => ~g.raised /\ getSocket(g, g.invoked[1].key) = Null

\* removeSocket(key) called by a connection's own close listener: it throws
\* nothing and the key is absent afterwards.
RemoveFromOwnClose ==
  \A s \in Socks :
    LET g == closeEvent(Cur, s)
    IN ( /\ readyState[s] \in {"CONNECTING", "OPEN", "CLOSING"}
         /\ Plain(closureKey[s]) )
         => /\ ~g.raised
            /\ opts.onClose => getSocket(g, closureKey[s]) = Null

\* getSocket on a plain key: null, or the last socket added under the key,
\* a number and the string it converts to being one key.
GetPlainKey ==
  \A k \in Keys :
    LET added == {s \in Created :
                    ToPropertyKey(closureKey[s]) = ToPropertyKey(k)}
        r == getSocket(Cur, k)
    IN Plain(k)
         => \/ r = Null
            \/ /\ added # {}
               /\ r = Sock(CHOOSE s \in added : \A o \in added : o <= s)

\* send on a plain key: one write to the open connection under it, nothing
\* at all when the key is absent.
SendPlainKey ==
  \A k \in Keys, m \in OutMessages :
    LET socket == Get(_sockets, k)
        g == send(Cur, k, m)
    IN Plain(k)
         => IF Present(k)
              THEN (Serializable(m) /\ readyState[socket.id] = "OPEN")
                     => /\ Writes(g, socket.id, m) = 1
                        /\ Len(g.out) = 1
                        /\ ~g.raised
                        /\ g.socks = _sockets
              ELSE Silent(g)

\* A message with a plain tag runs only the handler the bound table holds
\* for the tag, and nothing at all when the table holds none;
\* setHandlersForSocket on an absent plain key changes nothing.
DispatchPlainTag ==
  /\ \A s \in Socks, t \in Inbound :
       LET g == messageEvent(Cur, s, t)
           table == HandlersOf(onmessage[s].handlers)
           tag == ToPropertyKey(JSONparse(t).key)
       IN (readyState[s] = "OPEN" /\ onmessage[s].set /\ Plain(tag))
            => IF t.kind = "object" /\ HasOwn(table, tag)
                 THEN /\ Len(g.invoked) = 1
                      /\ g.invoked[1].table = onmessage[s].handlers
                      /\ Get(table, tag) = Fn(g.invoked[1].fn)
                 ELSE Silent(g)
  /\ \A k \in Keys, h \in TableNames :
       (Plain(k) /\ ~Present(k)) => Silent(setHandlersForSocket(Cur, k, h))

(***************************************************************************)
(* The claims about the client connection, error handling and dispatch     *)
(***************************************************************************)

\* The client has a handler for the tag of text t.
ClientHandles(t) ==
  /\ _handlers # "undefined"
  /\ HasOwn(ClientHandlersOf(_handlers), ToPropertyKey(t.key))

\* The listener whose machine is c changed nothing, wrote nothing, ran
\* nothing, logged nothing and threw nothing.
ClientSilent(c) == c = Cli

\* C11: on the client, whenever the connection is open, also before
\* setHandlersForSocket has ever been called, a well-formed inbound envelope
\* whose tag has no handler is ignored: no handler runs, nothing is thrown,
\* and the connection stays open.
C11_ClientUnknownTagIgnored ==
  \A t \in ClientInbound :
    LET c == clientMessageEvent(Cli, t)
    IN ( /\ socketState = "OPEN"
         /\ t.kind = "object" /\ t.hasKey
         /\ ~ClientHandles(t) )
         => /\ c.invoked = <<>>
            /\ ~c.raised
            /\ c.rs = "OPEN"

\* What remains true of C11: once a table is bound, a tag that names no
\* property of the table or of Object.prototype is ignored.
ClientBoundPlainTagIgnored ==
  \A t \in ClientInbound :
    ( /\ socketState = "OPEN"
      /\ _handlers # "undefined"
      /\ t.kind = "object" /\ t.hasKey
      /\ Plain(t.key)
      /\ ~ClientHandles(t) )
      => ClientSilent(clientMessageEvent(Cli, t))

\* Text that does not decode to an envelope: not JSON, or JSON without a
\* key member.
Malformed(t) == t.kind # "object" \/ ~t.hasKey

\* C12: an inbound payload that does not decode to a well-formed envelope
\* runs no handler, throws nothing out of the listener, leaves the
\* connection open and the bound table as it was, so that the next message
\* is dispatched as it would have been.  Stated for the client connection.
C12_MalformedIgnored ==
  \A t \in ClientInbound :
    LET c == clientMessageEvent(Cli, t)
    IN (socketState = "OPEN" /\ Malformed(t))
         => /\ c.invoked = <<>>
            /\ ~c.raised
            /\ c.rs = "OPEN"
            /\ c.handlers = _handlers
            /\ \A u \in ClientInbound :
                 clientMessageEvent([c EXCEPT !.logged = 0], u)
                   = clientMessageEvent(Cli, u)

\* What remains true of C12 on the client: it holds once a table is bound.
ClientBoundMalformedIgnored ==
  \A t \in ClientInbound :
    (socketState = "OPEN" /\ _handlers # "undefined" /\ Malformed(t))
      => ClientSilent([clientMessageEvent(Cli, t) EXCEPT !.logged = 0])

\* What remains true of C12 on the server: the listener setHandlersForSocket
\* installs ignores a malformed payload.
ServerMalformedIgnored ==
  \A s \in Socks, t \in Inbound :
    (readyState[s] = "OPEN" /\ onmessage[s].set /\ Malformed(t))
      => Silent(messageEvent(Cur, s, t))

\* C13: when the host sends a message JSON cannot represent, the call
\* throws to the host, writes nothing, and leaves the connection as it was.
\* Stated for the client connection's send.
C13_EncodeFailureSurfaced ==
  \A m \in ClientOutMessages :
    LET c == clientSend(Cli, m)
    IN (promise = "fulfilled" /\ ~Serializable(m))
         => /\ c.raised
            /\ c.out = <<>>
            /\ c.rs = socketState

\* What remains true of C13 on the client: nothing is written and the
\* connection is left as it was; the failure is logged, not thrown.
ClientEncodeFailureLogged ==
  \A m \in ClientOutMessages :
    LET c == clientSend(Cli, m)
    IN (promise = "fulfilled" /\ ~Serializable(m))
         => c = [Cli EXCEPT !.logged = 1]

\* What remains true of C13 on the server: send to a present key, and
\* broadcast when Object.values finds a connection, throw to the caller,
\* write nothing and change nothing.
ServerEncodeFailureSurfaced ==
  \A m \in OutMessages :
    ~Serializable(m)
      => /\ \A k \in Keys :
              Present(k) => send(Cur, k, m) = Raise(Cur)
         /\ ObjectValues(_sockets) # <<>> => broadcast(Cur, m) = Raise(Cur)

\* C14: on a connection the handler for a message does not start before the
\* handler for the previous message has completed, also when a handler is
\* async: a message event starts a handler only when no call of a handler
\* is still running.  Stated for the client connection.
C14_HandlersDoNotOverlap ==
  \A t \in ClientInbound :
    LET c == clientMessageEvent(Cli, t)
    IN (socketState = "OPEN" /\ c.invoked # <<>>) => running = 0

\* What remains true of C14: a message event runs at most one handler, the
\* one for its own tag, before the next event is taken.
OneHandlerPerMessage ==
  \A t \in ClientInbound :
    LET c == clientMessageEvent(Cli, t)
    IN (socketState = "OPEN" /\ c.invoked # <<>>)
         => /\ Len(c.invoked) = 1
            /\ Get(ClientHandlersOf(_handlers), t.key) = Fn(c.invoked[1])

\* The heap of machine g is the current one.
SameHeap(g) ==
  /\ g.socks = _sockets
  /\ g.rs = readyState
  /\ g.onmessage = onmessage
  /\ g.ctor = ctorOnmessage
  /\ g.exited = exited

\* The message event whose machine is g ran the handler that throws, and
\* nothing else.
RanThrowingHandler(g) == Len(g.invoked) = 1 /\ g.invoked[1].fn = "throw"

\* C15: a handler that throws while processing one message affects only
\* that message: however the event ends, the registry is unchanged, every
\* connection is in the state it was in and keeps its listener, and the
\* process is still there to dispatch the later messages.
C15_HandlerFailureIsolated ==
  \A s \in Socks, t \in Inbound :
    LET g == messageEvent(Cur, s, t)
    IN (~exited /\ readyState[s] = "OPEN" /\ RanThrowingHandler(g))
         => \A h \in Outcomes(g) : SameHeap(h)

\* What remains true of C15 on the server: the throw itself changes
\* nothing; it is the only outcome where the host prevents the default of
\* the error event.
ThrowingHandlerChangesNothing ==
  \A s \in Socks, t \in Inbound :
    LET g == messageEvent(Cur, s, t)
    IN (~exited /\ readyState[s] = "OPEN" /\ RanThrowingHandler(g))
         => g.raised /\ SameHeap(g)

\* What remains true of C15 on the client, in a browser: a handler that
\* throws changes nothing.
ClientThrowingHandlerChangesNothing ==
  \A t \in ClientInbound :
    LET c == clientMessageEvent(Cli, t)
    IN (socketState = "OPEN" /\ c.invoked = <<"throw">>)
         => c = [Cli EXCEPT !.invoked = <<"throw">>, !.raised = TRUE]

(***************************************************************************)
(* The round trip of a message                                             *)
(***************************************************************************)

\* What the client's listener decodes from the text the server's send wrote
\* for message m is m: the same key and data, so that every client table
\* resolves the handler of the key the sender used.
Decoded(text, m) ==
  LET eventData == JSONparse(text)
  IN /\ ~eventData.threw /\ eventData.truthy
     /\ eventData.key = m.key
     /\ eventData.data = m.data
     /\ \A h \in ClientTableNames :
          Get(ClientHandlersOf(h), eventData.key)
            = Get(ClientHandlersOf(h), m.key)

RejectedBeforeOpen == promise = "rejected" /\ socketState = "CLOSED"

(***************************************************************************)
(* Lifecycle callbacks, key reuse, dispatch and the registry               *)
(***************************************************************************)

\* createSocketGroup was given all three lifecycle callbacks.
AllCallbacks == opts.onOpen /\ opts.onClose /\ opts.onError

\* The call of callback name with the key socket s was added under.
Called(name, s) == [name |-> name, key |-> closureKey[s]]

Rank(state) ==
  CASE state = "NONE" -> 0
    [] state = "CONNECTING" -> 1
    [] state = "OPEN" -> 2
    [] state = "CLOSING" -> 3
    [] state = "CLOSED" -> 4

\* A socket has one open event and one close event at most: its readyState
\* only moves forward, and no event follows CLOSED.
ReadyStateMovesForward ==
  [][\A s \in Socks : Rank(readyState'[s]) >= Rank(readyState[s])]_vars

\* C18: when createSocketGroup was given onOpen, onClose and onError, the
\* open event of a registered connection calls onOpen once, its close event
\* calls onClose once, whether close() was called by removeSocket before or
\* the peer closed, a transport error calls onError once and then onClose
\* once, each with the key the connection was added under; and no call of
\* the group and no message calls a callback.
C18_LifecycleCallbacks ==
  (AllCallbacks /\ ~exited)
    => /\ \A s \in responded :
            /\ readyState[s] = "CONNECTING"
                 => openEvent(Cur, s).cb = <<Called("onOpen", s)>>
            /\ readyState[s] \in {"CONNECTING", "OPEN", "CLOSING"}
                 => /\ closeEvent(Cur, s).cb = <<Called("onClose", s)>>
                    /\ errorEvent(Cur, s).cb
                         = <<Called("onError", s), Called("onClose", s)>>
            /\ \A t \in Inbound : messageEvent(Cur, s, t).cb = <<>>
       /\ \A k \in Keys :
            /\ removeSocket(Cur, k).cb = <<>>
            /\ \A m \in OutMessages : send(Cur, k, m).cb = <<>>
            /\ \A h \in TableNames : setHandlersForSocket(Cur, k, h).cb = <<>>
            /\ \A s \in Fresh : addSocket(Cur, k, s).cb = <<>>
       /\ \A m \in OutMessages : broadcast(Cur, m).cb = <<>>

\* With all three callbacks, a connection that removeSocket has closed
\* awaits its close event.
C18_Witness ==
  /\ AllCallbacks
  /\ \E s \in responded : readyState[s] = "CLOSING" /\ s \notin Registered

\* Connection old was added under k, removeSocket(k) has called its close(),
\* and addSocket has put connection new under k since.
Reused(k, old, new) ==
  /\ old # new
  /\ closureKey[old] = k /\ closureKey[new] = k
  /\ readyState[old] = "CLOSING" /\ old \notin Registered
  /\ new \in responded
  /\ Get(_sockets, k) = Sock(new)

\* C19: a key may be reused after removal: after removeSocket(k) and
\* addSocket(k) of a second connection, getSocket(k) is the second
\* connection, and the late close event of the first one neither evicts nor
\* closes the second.
C19_KeyReuse ==
  \A k \in Keys, old \in Socks, new \in Socks :
    LET g == closeEvent(Cur, old)
    IN (~exited /\ Reused(k, old, new))
         => /\ getSocket(Cur, k) = Sock(new)
            /\ getSocket(g, k) = Sock(new)
            /\ g.rs[new] = readyState[new]

\* What remains true of C19: it holds for a group that was not given
\* onClose, whose sockets have no close listener.
KeyReuseWithoutOnClose ==
  \A k \in Keys, old \in Socks, new \in Socks :
    LET g == closeEvent(Cur, old)
    IN (~exited /\ ~opts.onClose /\ Reused(k, old, new))
         => /\ getSocket(Cur, k) = Sock(new)
            /\ getSocket(g, k) = Sock(new)
            /\ g.rs[new] = readyState[new]

\* C20: a handler of the server is invoked with (data, key, group) only
\* while the registry maps key to the connection the message arrived on.
\* Stated for the messages of an open connection.
C20_HandlerOnlyWhileRegistered ==
  \A s \in Socks, t \in Inbound :
    LET g == messageEvent(Cur, s, t)
    IN (~exited /\ readyState[s] = "OPEN")
         => \A i \in 1..Len(g.invoked) :
              Get(_sockets, g.invoked[i].key) = Sock(s)

\* What remains true of C20: while an open connection is still in the
\* registry, its handlers are invoked with the key it is registered under.
HandlerKeyOfRegistered ==
  \A s \in Registered, t \in Inbound :
    LET g == messageEvent(Cur, s, t)
    IN (~exited /\ readyState[s] = "OPEN")
         => \A i \in 1..Len(g.invoked) :
              Get(_sockets, g.invoked[i].key) = Sock(s)

(***************************************************************************)
(* The lifecycle callbacks and the registry                                *)
(***************************************************************************)

NoCallbacks == ~opts.onOpen /\ ~opts.onClose /\ ~opts.onError

\* The steps whose code reads opts do to the registry and to the
\* connections what they do in a group that was given no callback:
\* addSocket makes the new socket and stores it under the key, and an open,
\* close or error event changes the readyState of its socket and nothing
\* else.
CallbackFreeSteps ==
  /\ \A k \in Keys, s \in Fresh :
       LET g == addSocket(Cur, k, s)
       IN /\ g.socks = Set(_sockets, k, Sock(s))
          /\ g.rs = [readyState EXCEPT ![s] = "CONNECTING"]
  /\ \A s \in responded :
       /\ readyState[s] = "CONNECTING"
            => LET g == openEvent(Cur, s)
               IN /\ g.socks = _sockets
                  /\ g.rs = [readyState EXCEPT ![s] = "OPEN"]
       /\ readyState[s] \in {"CONNECTING", "OPEN", "CLOSING"}
            => \A g \in {closeEvent(Cur, s), errorEvent(Cur, s)} :
                 /\ g.socks = _sockets
                 /\ g.rs = [readyState EXCEPT ![s] = "CLOSED"]

\* C21: which lifecycle callbacks createSocketGroup was given does not
\* change what the group does: from the same registry and connections, the
\* same call or event leaves the same registry and the same connection
\* states as in a group without callbacks.
C21_CallbacksDoNotChangeBehaviour == ~exited => CallbackFreeSteps

\* The group without callbacks does take the steps C21 compares with.
WithoutCallbacks == (~exited /\ NoCallbacks) => CallbackFreeSteps

\* What remains true of C21: onOpen alone changes nothing.
OnOpenChangesNothing ==
  (~exited /\ ~opts.onClose /\ ~opts.onError) => CallbackFreeSteps

(***************************************************************************)
(* The states of the client connection                                     *)
(***************************************************************************)

\* C22: the readyState of the client connection only moves forward along
\* CONNECTING, OPEN, CLOSING, CLOSED; close() on a closing or closed
\* connection changes nothing; and whatever close() calls, error events and
\* close events there are, opts.onClose is called once at most.
C22_ClientStateMovesForward ==
  /\ [][Rank(socketState') >= Rank(socketState)]_vars
  /\ [](socketState \in {"CLOSING", "CLOSED"} => clientClose(Cli) = Cli)
  /\ [](onCloseCalls <= 1)

\* The connection opened and has closed, and onClose has run once.
C22_Witness ==
  /\ promise = "fulfilled"
  /\ socketState = "CLOSED"
  /\ onCloseCalls = 1

====
